---- MODULE Spec2Model ----
(***************************************************************************)
(* The process supervisor of src/app.py: the job table `processes`, the    *)
(* files and runs tables of the store, the OS processes it spawns, the     *)
(* request handlers running on the bot's worker threads (start, stop,      *)
(* restart, delete) and the detached monitor thread of every run.          *)
(*                                                                         *)
(* One action is one step of a thread between two accesses to shared       *)
(* state.  A step that only reads a fact that can no longer change is      *)
(* taken together with the step that follows it: process.wait() returning  *)
(* (a dead process stays dead) with the monitor's first store update.  A   *)
(* step whose effect no other thread reads or writes is taken together     *)
(* with its neighbour: Popen and record_run_start (the new process and its *)
(* run row are reachable by nobody before the registration) with the       *)
(* update_file_status that follows, and record_run_finish (the run row is  *)
(* written by its monitor alone) with the update_file_status before it.    *)
(***************************************************************************)
EXTENDS Integers, Sequences, FiniteSets, TLC

\* ------------------------------------------------------------------ bounds
NumFiles == 2
MaxRequests == 3
MaxDirs == 2
MaxEntries == 2

\* ------------------------------------------------------- program constants
NumThreads == 2
MAX_RUNNING_PROCESSES == 2
MAX_FILES_PER_USER == 1
CPU_THRESHOLD == 90
MEMORY_THRESHOLD == 90
SIGTERM == 15
SIGKILL == 9
None == 0

FileIds == 1..NumFiles
Threads == 1..NumThreads
RunIds == 1..MaxRequests

\* what a script returns when it ends by itself
ExitCodes == {0, 1}
\* what psutil reports, in percent
CpuSamples == {10, 90}
MemSamples == {10, 90}

VARIABLES
    files,      \* the files table: file id -> [exists, status, pid]
    runs,       \* the runs table: run id -> [file_id, pid, finished, exit_code]
    processes,  \* the job table: file id -> NoJob or [process, run_id]
    proc_lock,  \* the thread holding proc_lock across a blocking wait, or None
    os,         \* the spawned OS processes: handle -> [fid, alive, code]
    thr,        \* the worker threads: position and locals of the request served
    mon,        \* the monitor thread of every run: position and closure
    closes,     \* history: who applied record_run_finish to each run
    nreq,       \* the number of requests the users have sent
    last_id,    \* the last id the files table has given to a record
    call,       \* a call of a function of the file utilities: arguments and result
    max_running_processes,  \* MAX_RUNNING_PROCESSES as read from the environment
    db_lock     \* the thread inside a with db_lock block, or None

vars == <<files, runs, processes, proc_lock, os, thr, mon, closes, nreq, last_id, call, max_running_processes, db_lock>>

NoJob == [process |-> None, run_id |-> None]
Idle == [pc |-> "idle", op |-> "none", fid |-> None, process |-> None,
         run_id |-> None, stopped |-> FALSE]
NoMonitor == [pc |-> "none", file_id |-> None, process |-> None, exit_code |-> None]
NoCall == [op |-> "none"]

\* the ids that are keys of the job table
LiveIds == {f \in FileIds : processes[f] # NoJob}

Init ==
    /\ files = [f \in FileIds |-> [exists |-> TRUE, status |-> "Stopped", pid |-> None]]
    /\ runs = <<>>
    /\ processes = [f \in FileIds |-> NoJob]
    /\ proc_lock = None
    /\ os = <<>>
    /\ thr = [t \in Threads |-> Idle]
    /\ mon = [r \in RunIds |-> NoMonitor]
    /\ closes = [r \in RunIds |-> <<>>]
    /\ nreq = 0
    /\ last_id = NumFiles
    /\ call = NoCall
    /\ max_running_processes = MAX_RUNNING_PROCESSES
    /\ db_lock = None

\* ------------------------------------------------------------ file utilities
\* a file name: what precedes its last suffix, and the suffix as it is written
Name(b, e) == [base |-> b, ext |-> e]

\* the names the entries of an artifact's directories are taken from
FileNames ==
    {Name("main", ".py"), Name("app", ".js"), Name("util", ".py"), Name("lib", ".js"),
     Name("notes", ".txt")}

\* the entries of one directory, as os.walk lists them
Listings ==
    {l \in UNION {[1..n -> FileNames] : n \in 0..MaxEntries} :
        \A i, j \in 1..Len(l) : l[i] = l[j] => i = j}

\* a directory tree: its directories in the order os.walk visits them, the
\* root first
Trees == UNION {[1..n -> Listings] : n \in 1..MaxDirs}

priority_files ==
    <<Name("main", ".py"), Name("bot", ".py"), Name("app", ".py"), Name("server", ".py"),
      Name("index", ".py"), Name("script", ".py"),
      Name("main", ".js"), Name("bot", ".js"), Name("app", ".js"), Name("server", ".js"),
      Name("index", ".js"), Name("script", ".js")>>

\* the names an uploaded document is taken from; the empty name is a document
\* without a suffix
UploadNames ==
    {Name("bot", ".py"), Name("BOT", ".PY"), Name("app", ".js"), Name("notes", ".txt"),
     Name("unknown", ""), Name("proj", ".ZIP"), Name("proj", ".tar.gz")}

\* str.lower() on the ending of a name
Lower(e) ==
    CASE e = ".PY" -> ".py"
      [] e = ".JS" -> ".js"
      [] e = ".ZIP" -> ".zip"
      [] OTHER -> e

get_file_type(filename) ==
    LET name == Lower(filename.ext)
    IN IF name = ".py" THEN "python"
       ELSE IF name = ".js" THEN "javascript"
       ELSE IF name = ".zip" THEN "zip"
       ELSE IF name \in {".tar", ".tar.gz", ".tgz"} THEN "archive"
       ELSE "unknown"

\* extraction succeeds for an intact archive of a format it knows
extract_archive(file_path, intact) ==
    Lower(file_path.ext) \in {".zip", ".tar.gz", ".tgz", ".tar"} /\ intact

NotFound == [dir |-> 0, name |-> Name("", "")]

Min(S) == CHOOSE x \in S : \A y \in S : x <= y

\* the priority names a directory holds, by their index in priority_files
PriorityHits(tree, d) ==
    {k \in 1..Len(priority_files) :
        \E i \in 1..Len(tree[d]) : tree[d][i] = priority_files[k]}

\* the entries of a directory that end with .py or .js, by their position
SourceEntries(tree, d) ==
    {i \in 1..Len(tree[d]) : tree[d][i].ext = ".py" \/ tree[d][i].ext = ".js"}

\* a resolver that would take the first priority name in listing order
find_main_file_listing_order(tree) ==
    LET hits == {d \in 1..Len(tree) : PriorityHits(tree, d) # {}}
        anys == {d \in 1..Len(tree) : SourceEntries(tree, d) # {}}
        first(d) == Min({i \in 1..Len(tree[d]) :
                            \E k \in PriorityHits(tree, d) : tree[d][i] = priority_files[k]})
    IN IF hits # {}
       THEN [dir |-> Min(hits), name |-> tree[Min(hits)][first(Min(hits))]]
       ELSE IF anys # {}
       THEN [dir |-> Min(anys), name |-> tree[Min(anys)][Min(SourceEntries(tree, Min(anys)))]]
       ELSE NotFound

\* the root's priority files in the order of the list, then the walk with the
\* list's order in every directory, then the first .py or .js file of the walk
find_main_file(tree) ==
    LET hits == {d \in 1..Len(tree) : PriorityHits(tree, d) # {}}
        anys == {d \in 1..Len(tree) : SourceEntries(tree, d) # {}}
    IN IF PriorityHits(tree, 1) # {}
       THEN [dir |-> 1, name |-> priority_files[Min(PriorityHits(tree, 1))]]
       ELSE IF hits # {}
       THEN [dir |-> Min(hits), name |-> priority_files[Min(PriorityHits(tree, Min(hits)))]]
       ELSE IF anys # {}
       THEN [dir |-> Min(anys), name |-> tree[Min(anys)][Min(SourceEntries(tree, Min(anys)))]]
       ELSE NotFound

\* a document handler that would keep the kind of the uploaded document
document_handler_upload_kind(name, intact, tree) ==
    LET file_type == get_file_type(name)
    IN IF file_type \in {"zip", "archive"}
       THEN IF ~extract_archive(name, intact)
            THEN [stored |-> FALSE, kind |-> file_type, main |-> NotFound]
            ELSE IF find_main_file(tree) = NotFound
            THEN [stored |-> FALSE, kind |-> file_type, main |-> NotFound]
            ELSE [stored |-> TRUE, kind |-> file_type, main |-> find_main_file(tree)]
       ELSE [stored |-> TRUE, kind |-> file_type, main |-> NotFound]

\* what document_handler hands to add_file_record for a document that was
\* downloaded and saved: whether a record is stored, its kind, and the entry
\* point found in an archive
document_handler(name, intact, tree) ==
    LET file_type == get_file_type(name)
    IN IF file_type \in {"zip", "archive"}
       THEN IF ~extract_archive(name, intact)
            THEN [stored |-> FALSE, kind |-> file_type, main |-> NotFound]
            ELSE IF find_main_file(tree) = NotFound
            THEN [stored |-> FALSE, kind |-> file_type, main |-> NotFound]
            ELSE [stored |-> TRUE, kind |-> get_file_type(find_main_file(tree).name),
                  main |-> find_main_file(tree)]
       ELSE [stored |-> TRUE, kind |-> file_type, main |-> NotFound]

\* the extraction directory holds files only when the document was an archive
\* that extracted
ExtractedTrees(nm, ok) == IF extract_archive(nm, ok) THEN Trees ELSE {<<<<>>>>}

\* document_handler runs from the saved document to add_file_record
DocumentCall ==
    /\ call.op = "document"
    /\ ~call.done
    /\ call' = [call EXCEPT !.done = TRUE,
                            !.result = document_handler(call.name, call.intact, call.tree)]
    /\ UNCHANGED <<files, runs, processes, proc_lock, os, thr, mon, closes, nreq, last_id, max_running_processes, db_lock>>

ResolveCalls ==
    {[op |-> "resolve", tree |-> tr, done |-> FALSE, result |-> NotFound] : tr \in Trees}

\* find_main_file(directory) is called and returns
ResolveCall ==
    /\ call.op = "resolve"
    /\ ~call.done
    /\ call' = [call EXCEPT !.done = TRUE, !.result = find_main_file(call.tree)]
    /\ UNCHANGED <<files, runs, processes, proc_lock, os, thr, mon, closes, nreq, last_id, max_running_processes, db_lock>>

\* ------------------------------------------------------------ store helpers
record_run_start(R, file_id, pid) ==
    Append(R, [file_id |-> file_id, pid |-> pid, finished |-> FALSE, exit_code |-> None])

\* a close that stamps finished_at and forgets the exit code
record_run_finish_no_code(R, run_id, exit_code) ==
    [R EXCEPT ![run_id].finished = TRUE]

record_run_finish(R, run_id, exit_code) ==
    [R EXCEPT ![run_id].finished = TRUE, ![run_id].exit_code = exit_code]

update_file_status(F, file_id, pid, status) ==
    IF F[file_id].exists
    THEN [F EXCEPT ![file_id].pid = pid, ![file_id].status = status]
    ELSE F

remove_file_record(F, file_id) ==
    [F EXCEPT ![file_id] = [exists |-> FALSE, status |-> "Stopped", pid |-> None]]

add_file_record(F, file_id) ==
    [F EXCEPT ![file_id] = [exists |-> TRUE, status |-> "Stopped", pid |-> None]]

\* the records of the tenant
list_user_files(F) == {f \in FileIds : F[f].exists}

\* ---------------------------------------------------------------- admission
\* a sampling that would still count the job table when psutil raises
get_system_load_counting(cpu, mem, fails) ==
    IF fails
    THEN [cpu |-> 0, memory |-> 0, process_count |-> Cardinality(LiveIds)]
    ELSE [cpu |-> cpu, memory |-> mem, process_count |-> Cardinality(LiveIds)]

get_system_load(cpu, mem, fails) ==
    IF fails
    THEN [cpu |-> 0, memory |-> 0, process_count |-> 0]
    ELSE [cpu |-> cpu, memory |-> mem, process_count |-> Cardinality(LiveIds)]

\* a decision that would look at the CPU load before the number of processes
should_stop_due_to_load_cpu_first(l) ==
    IF l.cpu >= CPU_THRESHOLD THEN <<TRUE, "High CPU load">>
    ELSE IF l.process_count >= max_running_processes
    THEN <<TRUE, "Too many running processes">>
    ELSE IF l.memory >= MEMORY_THRESHOLD THEN <<TRUE, "High memory usage">>
    ELSE <<FALSE, "">>

should_stop_due_to_load(l) ==
    IF l.process_count >= max_running_processes THEN <<TRUE, "Too many running processes">>
    ELSE IF l.cpu >= CPU_THRESHOLD THEN <<TRUE, "High CPU load">>
    ELSE IF l.memory >= MEMORY_THRESHOLD THEN <<TRUE, "High memory usage">>
    ELSE <<FALSE, "">>

\* the loads the decision is applied to: percentages around the two thresholds
\* and process counts around the maximum
CpuValues == {0, CPU_THRESHOLD - 1, CPU_THRESHOLD, CPU_THRESHOLD + 1, 100}

MemValues == {0, MEMORY_THRESHOLD - 1, MEMORY_THRESHOLD, MEMORY_THRESHOLD + 1, 100}

CountValues == 0..(MAX_RUNNING_PROCESSES + NumFiles)

\* should_stop_due_to_load() returns for the load that get_system_load gave it
AdmissionCall ==
    /\ call.op = "admission"
    /\ ~call.done
    /\ call' = [call EXCEPT !.done = TRUE,
                            !.result = should_stop_due_to_load(call.load)]
    /\ UNCHANGED <<files, runs, processes, proc_lock, os, thr, mon, closes, nreq, last_id, max_running_processes, db_lock>>

\* ------------------------------------------------------------------ requests
\* the pool hands a request to its first free worker; the users send no more
\* than MaxRequests requests in all
Free(t) ==
    /\ thr[t].pc = "idle"
    /\ \A u \in Threads : u < t => thr[u].pc # "idle"
    /\ nreq < MaxRequests
    /\ nreq' = nreq + 1

RequestStart(t, f) ==
    /\ Free(t)
    /\ thr' = [thr EXCEPT ![t] = [Idle EXCEPT !.pc = "admit", !.op = "start", !.fid = f]]
    /\ UNCHANGED <<files, runs, processes, proc_lock, os, mon, closes, last_id, call, max_running_processes, db_lock>>

RequestStop(t, f) ==
    /\ Free(t)
    /\ thr' = [thr EXCEPT ![t] = [Idle EXCEPT !.pc = "stop_lock", !.op = "stop", !.fid = f]]
    /\ UNCHANGED <<files, runs, processes, proc_lock, os, mon, closes, last_id, call, max_running_processes, db_lock>>

RequestRestart(t, f) ==
    /\ Free(t)
    /\ thr' = [thr EXCEPT ![t] = [Idle EXCEPT !.pc = "stop_lock", !.op = "restart", !.fid = f]]
    /\ UNCHANGED <<files, runs, processes, proc_lock, os, mon, closes, last_id, call, max_running_processes, db_lock>>

RequestDelete(t, f) ==
    /\ Free(t)
    /\ thr' = [thr EXCEPT ![t] = [Idle EXCEPT !.pc = "del_lookup", !.op = "delete", !.fid = f]]
    /\ UNCHANGED <<files, runs, processes, proc_lock, os, mon, closes, last_id, call, max_running_processes, db_lock>>

\* ------------------------------------------------------- start_file_process
\* the admission check on the sampled load l: one unlocked read of
\* len(processes), then the decision; a rejection returns at once
\* an admission that would reserve the slot it grants in the job table
Admission_reserving(t, l) ==
    /\ thr[t].pc = "admit"
    /\ IF should_stop_due_to_load(l)[1]
       THEN thr' = [thr EXCEPT ![t] = Idle] /\ processes' = processes
       ELSE /\ thr' = [thr EXCEPT ![t].pc = "lookup"]
            /\ processes' = [processes EXCEPT ![thr[t].fid] =
                                [process |-> None, run_id |-> -1]]
    /\ UNCHANGED <<files, runs, proc_lock, os, mon, closes, nreq, last_id, call, max_running_processes, db_lock>>

Admission(t, l) ==
    /\ thr[t].pc = "admit"
    /\ thr' = [thr EXCEPT ![t] = IF should_stop_due_to_load(l)[1]
                                 THEN Idle
                                 ELSE [@ EXCEPT !.pc = "lookup"]]
    /\ UNCHANGED <<files, runs, processes, proc_lock, os, mon, closes, nreq, last_id, call, max_running_processes, db_lock>>

StartAdmit(t) ==
    \E cpu \in CpuSamples, mem \in MemSamples, fails \in BOOLEAN :
        Admission(t, get_system_load(cpu, mem, fails))

\* the admission when psutil answers
StartAdmitSampled(t) ==
    \E cpu \in CpuSamples, mem \in MemSamples :
        Admission(t, get_system_load(cpu, mem, FALSE))

\* the admission when psutil raises
StartAdmitFailing(t) ==
    \E cpu \in CpuSamples, mem \in MemSamples :
        Admission(t, get_system_load(cpu, mem, TRUE))

\* get_file_record, then the entry point and the interpreter of the artifact:
\* a missing record, no main file, a missing file or an unsupported extension
\* return with an error message; a .py entry point goes through the dependency
\* installation, a .js entry point goes to the spawn
StartLookup(t) ==
    /\ thr[t].pc = "lookup"
    /\ IF ~files[thr[t].fid].exists
       THEN thr' = [thr EXCEPT ![t] = Idle]
       ELSE \/ thr' = [thr EXCEPT ![t].pc = "install"]
            \/ thr' = [thr EXCEPT ![t].pc = "spawn"]
            \/ thr' = [thr EXCEPT ![t] = Idle]
    /\ UNCHANGED <<files, runs, processes, proc_lock, os, mon, closes, nreq, last_id, call, max_running_processes, db_lock>>

\* what pip does with one package, and what importlib.import_module does with
\* one imported name
PipOutcomes == {"installed", "failed", "timeout", "error"}
ProbeOutcomes == {"available", "ImportError", "OtherError"}

\* the manifests and the import lists of the entry points: what happens to each
\* of their entries
Manifests == {<<>>} \cup {<<o>> : o \in PipOutcomes}
ImportLists == {<<>>} \cup {<<o>> : o \in ProbeOutcomes}

\* every pip outcome is counted, none is raised: <<success, failed_count>>
install_requirements_from_file(manifest) ==
    LET failed == {i \in 1..Len(manifest) : manifest[i] # "installed"}
    IN <<failed = {}, Cardinality(failed)>>

\* the probe catches ImportError alone: any other exception of import_module
\* leaves the function; the names that are missing are installed, every pip
\* outcome counted
install_missing_imports(imports, pip) ==
    IF \E i \in 1..Len(imports) : imports[i] = "OtherError"
    THEN "raised"
    ELSE LET missing == {i \in 1..Len(imports) : imports[i] = "ImportError"}
         IN IF missing = {}
            THEN <<TRUE, 0>>
            ELSE <<pip = "installed", IF pip = "installed" THEN 0 ELSE Cardinality(missing)>>

\* the dependency installation of a .py entry point, outside the try block of
\* start: an exception leaves start_file_process and ends the request in the
\* except block of the handler
StartInstall(t) ==
    /\ thr[t].pc = "install"
    /\ \E manifest \in Manifests, imports \in ImportLists, pip \in PipOutcomes :
          LET req == install_requirements_from_file(manifest)
              imp == install_missing_imports(imports, pip)
          IN thr' = [thr EXCEPT ![t] = IF imp = "raised" THEN Idle
                                       ELSE [@ EXCEPT !.pc = "spawn"]]
    /\ UNCHANGED <<files, runs, processes, proc_lock, os, mon, closes, nreq, last_id, call, max_running_processes, db_lock>>

\* a start that would mark the Artifact Running before it spawns
StartSpawn_status_first(t) ==
    /\ thr[t].pc = "spawn"
    /\ files' = update_file_status(files, thr[t].fid, Len(os) + 1, "Running")
    /\ \/ /\ os' = Append(os, [fid |-> thr[t].fid, alive |-> TRUE, code |-> None])
          /\ runs' = record_run_start(runs, thr[t].fid, Len(os) + 1)
          /\ thr' = [thr EXCEPT ![t].pc = "register", ![t].process = Len(os) + 1,
                                ![t].run_id = Len(runs) + 1]
       \/ /\ thr' = [thr EXCEPT ![t].pc = "spawn_failed"]
          /\ UNCHANGED <<os, runs>>
    /\ UNCHANGED <<processes, proc_lock, mon, closes, nreq, last_id, call, max_running_processes, db_lock>>

\* subprocess.Popen, record_run_start and update_file_status(.., "Running"),
\* or the exception of open() or Popen, which leads to the except block
\* a start that would start the monitor thread right after the spawn, before
\* the registration
StartSpawn_monitor_first(t) ==
    /\ thr[t].pc = "spawn"
    /\ \/ /\ os' = Append(os, [fid |-> thr[t].fid, alive |-> TRUE, code |-> None])
          /\ runs' = record_run_start(runs, thr[t].fid, Len(os) + 1)
          /\ files' = update_file_status(files, thr[t].fid, Len(os) + 1, "Running")
          /\ mon' = [mon EXCEPT ![Len(runs) + 1] =
                        [pc |-> "wait", file_id |-> thr[t].fid, process |-> Len(os) + 1,
                         exit_code |-> None]]
          /\ thr' = [thr EXCEPT ![t].pc = "register", ![t].process = Len(os) + 1,
                                ![t].run_id = Len(runs) + 1]
       \/ /\ thr' = [thr EXCEPT ![t].pc = "spawn_failed"]
          /\ UNCHANGED <<os, runs, files, mon>>
    /\ UNCHANGED <<processes, proc_lock, closes, nreq, last_id, call, max_running_processes, db_lock>>

StartSpawn(t) ==
    /\ thr[t].pc = "spawn"
    /\ \/ /\ os' = Append(os, [fid |-> thr[t].fid, alive |-> TRUE, code |-> None])
          /\ runs' = record_run_start(runs, thr[t].fid, Len(os) + 1)
          /\ files' = update_file_status(files, thr[t].fid, Len(os) + 1, "Running")
          /\ thr' = [thr EXCEPT ![t].pc = "register", ![t].process = Len(os) + 1,
                                ![t].run_id = Len(runs) + 1]
       \/ /\ thr' = [thr EXCEPT ![t].pc = "spawn_failed"]
          /\ UNCHANGED <<os, runs, files>>
    /\ UNCHANGED <<processes, proc_lock, mon, closes, nreq, last_id, call, max_running_processes, db_lock>>

\* except Exception: the error is logged and sent as a message, and start returns
StartFailed(t) ==
    /\ thr[t].pc = "spawn_failed"
    /\ thr' = [thr EXCEPT ![t] = Idle]
    /\ UNCHANGED <<files, runs, processes, proc_lock, os, mon, closes, nreq, last_id, call, max_running_processes, db_lock>>

\* with proc_lock: processes[file_id] = {...}
StartRegister(t) ==
    /\ thr[t].pc = "register"
    /\ proc_lock = None
    /\ processes' = [processes EXCEPT ![thr[t].fid] =
                        [process |-> thr[t].process, run_id |-> thr[t].run_id]]
    /\ thr' = [thr EXCEPT ![t].pc = "monitor"]
    /\ UNCHANGED <<files, runs, proc_lock, os, mon, closes, nreq, last_id, call, max_running_processes, db_lock>>

\* threading.Thread(target=monitor_process).start(), and start returns
StartMonitor(t) ==
    /\ thr[t].pc = "monitor"
    /\ mon' = [mon EXCEPT ![thr[t].run_id] =
                  [pc |-> "wait", file_id |-> thr[t].fid, process |-> thr[t].process,
                   exit_code |-> None]]
    /\ thr' = [thr EXCEPT ![t] = Idle]
    /\ UNCHANGED <<files, runs, processes, proc_lock, os, closes, nreq, last_id, call, max_running_processes, db_lock>>

\* ----------------------------------------------------------- monitor_process
\* process.wait() has returned the exit code; finally: update_file_status(..,
\* "Stopped") and record_run_finish
MonitorFinish(r) ==
    /\ mon[r].pc = "wait"
    /\ ~os[mon[r].process].alive
    /\ files' = update_file_status(files, mon[r].file_id, None, "Stopped")
    /\ runs' = record_run_finish(runs, r, os[mon[r].process].code)
    /\ closes' = [closes EXCEPT ![r] = Append(@, "monitor")]
    /\ mon' = [mon EXCEPT ![r].pc = "pop", ![r].exit_code = os[mon[r].process].code]
    /\ UNCHANGED <<processes, proc_lock, os, thr, nreq, last_id, call, max_running_processes, db_lock>>

\* with proc_lock: processes.pop(file_id, None)
MonitorPop(r) ==
    /\ mon[r].pc = "pop"
    /\ proc_lock = None
    /\ processes' = [processes EXCEPT ![mon[r].file_id] = NoJob]
    /\ mon' = [mon EXCEPT ![r].pc = "done"]
    /\ UNCHANGED <<files, runs, proc_lock, os, thr, closes, nreq, last_id, call, max_running_processes, db_lock>>

\* a store update raising inside finally ends the monitor thread there: either
\* update_file_status raises and nothing is cleaned up, or record_run_finish
\* raises after the status was written; processes.pop is skipped in both cases
MonitorFault(r) ==
    /\ mon[r].pc = "wait"
    /\ ~os[mon[r].process].alive
    /\ \/ files' = files
       \/ files' = update_file_status(files, mon[r].file_id, None, "Stopped")
    /\ mon' = [mon EXCEPT ![r].pc = "crashed", ![r].exit_code = os[mon[r].process].code]
    /\ UNCHANGED <<runs, processes, proc_lock, os, thr, closes, nreq, last_id, call, max_running_processes, db_lock>>

\* the script ends by itself
ProcExit(p) ==
    /\ p \in 1..Len(os)
    /\ os[p].alive
    /\ \E c \in ExitCodes : os' = [os EXCEPT ![p].alive = FALSE, ![p].code = c]
    /\ UNCHANGED <<files, runs, processes, proc_lock, thr, mon, closes, nreq, last_id, call, max_running_processes, db_lock>>

\* ----------------------------------------------------------- stop_file_process
\* a stop without the escalation to kill(): a script that ignores the
\* termination signal is still alive after the grace period
stop_signal_no_kill(p) ==
    {[p EXCEPT !.alive = FALSE, !.code = -SIGTERM], p}

\* terminate(), wait(timeout=5) and, on TimeoutExpired, kill() and wait(): what
\* the process handle can look like afterwards.  The script dies of SIGTERM,
\* ends in its handler with a code of its own, or ignores it and is killed
stop_signal(p) ==
    {[p EXCEPT !.alive = FALSE, !.code = -SIGTERM],
     [p EXCEPT !.alive = FALSE, !.code = -SIGKILL]}
    \cup {[p EXCEPT !.alive = FALSE, !.code = c] : c \in ExitCodes}

\* a stop that, finding no LiveJob, would signal the process whose pid the
\* files table holds
StopLock_by_pid(t) ==
    /\ thr[t].pc = "stop_lock"
    /\ proc_lock = None
    /\ LET job == processes[thr[t].fid]
           pid == files[thr[t].fid].pid IN
       IF job # NoJob
       THEN /\ proc_lock' = t
            /\ IF os[job.process].alive
               THEN /\ \E after \in stop_signal(os[job.process]) :
                         os' = [os EXCEPT ![job.process] = after]
                    /\ thr' = [thr EXCEPT ![t].pc = "stop_pop", ![t].process = job.process,
                                          ![t].run_id = job.run_id, ![t].stopped = TRUE]
               ELSE /\ os' = os
                    /\ thr' = [thr EXCEPT ![t].pc = "stop_pop", ![t].process = job.process,
                                          ![t].run_id = job.run_id]
       ELSE /\ thr' = [thr EXCEPT ![t].pc = "stop_status"]
            /\ os' = IF pid # None
                     THEN [os EXCEPT ![pid].alive = FALSE, ![pid].code = -SIGTERM]
                     ELSE os
            /\ UNCHANGED proc_lock
    /\ UNCHANGED <<files, runs, processes, mon, closes, nreq, last_id, call, max_running_processes, db_lock>>

\* with proc_lock: the lookup, poll() and the signalling, the lock kept while waiting
StopLock(t) ==
    /\ thr[t].pc = "stop_lock"
    /\ proc_lock = None
    /\ LET job == processes[thr[t].fid] IN
       IF job # NoJob
       THEN /\ proc_lock' = t
            /\ IF os[job.process].alive
               THEN /\ \E after \in stop_signal(os[job.process]) :
                         os' = [os EXCEPT ![job.process] = after]
                    /\ thr' = [thr EXCEPT ![t].pc = "stop_pop", ![t].process = job.process,
                                          ![t].run_id = job.run_id, ![t].stopped = TRUE]
               ELSE /\ os' = os
                    /\ thr' = [thr EXCEPT ![t].pc = "stop_pop", ![t].process = job.process,
                                          ![t].run_id = job.run_id]
       ELSE /\ thr' = [thr EXCEPT ![t].pc = "stop_status"]
            /\ UNCHANGED <<proc_lock, os>>
    /\ UNCHANGED <<files, runs, processes, mon, closes, nreq, last_id, call, max_running_processes, db_lock>>

\* processes.pop(file_id, None), leaving the with block
StopPop(t) ==
    /\ thr[t].pc = "stop_pop"
    /\ proc_lock = t
    /\ processes' = [processes EXCEPT ![thr[t].fid] = NoJob]
    /\ proc_lock' = None
    /\ thr' = [thr EXCEPT ![t].pc = "stop_status"]
    /\ UNCHANGED <<files, runs, os, mon, closes, nreq, last_id, call, max_running_processes, db_lock>>

\* a stop that would close the Run of the LiveJob it found by itself
StopStatus_closing(t) ==
    /\ thr[t].pc = "stop_status"
    /\ files' = update_file_status(files, thr[t].fid, None, "Stopped")
    /\ IF thr[t].run_id # None
       THEN /\ runs' = record_run_finish(runs, thr[t].run_id, os[thr[t].process].code)
            /\ closes' = [closes EXCEPT ![thr[t].run_id] = Append(@, "stop")]
       ELSE UNCHANGED <<runs, closes>>
    /\ thr' = [thr EXCEPT ![t] =
                 CASE thr[t].op = "stop" -> Idle
                   [] thr[t].op = "restart" ->
                        [Idle EXCEPT !.pc = "admit", !.op = "restart", !.fid = thr[t].fid]
                   [] OTHER ->
                        [Idle EXCEPT !.pc = "remove", !.op = "delete", !.fid = thr[t].fid]]
    /\ UNCHANGED <<processes, proc_lock, os, mon, nreq, last_id, call, max_running_processes, db_lock>>

\* update_file_status(file_id, None, "Stopped") and the return to the handler,
\* which is done (stop), goes on to start (restart) or to the removal (delete)
StopStatus(t) ==
    /\ thr[t].pc = "stop_status"
    /\ files' = update_file_status(files, thr[t].fid, None, "Stopped")
    /\ thr' = [thr EXCEPT ![t] =
                 CASE thr[t].op = "stop" -> Idle
                   [] thr[t].op = "restart" ->
                        [Idle EXCEPT !.pc = "admit", !.op = "restart", !.fid = thr[t].fid]
                   [] OTHER ->
                        [Idle EXCEPT !.pc = "remove", !.op = "delete", !.fid = thr[t].fid]]
    /\ UNCHANGED <<runs, processes, proc_lock, os, mon, closes, nreq, last_id, call, max_running_processes, db_lock>>

\* --------------------------------------------------- callback_handler: delete
DeleteLookup(t) ==
    /\ thr[t].pc = "del_lookup"
    /\ thr' = [thr EXCEPT ![t] = IF files[thr[t].fid].exists
                                 THEN [@ EXCEPT !.pc = "stop_lock"]
                                 ELSE Idle]
    /\ UNCHANGED <<files, runs, processes, proc_lock, os, mon, closes, nreq, last_id, call, max_running_processes, db_lock>>

\* the storage is freed and the record removed
DeleteRemove(t) ==
    /\ thr[t].pc = "remove"
    /\ files' = remove_file_record(files, thr[t].fid)
    /\ thr' = [thr EXCEPT ![t] = Idle]
    /\ UNCHANGED <<runs, processes, proc_lock, os, mon, closes, nreq, last_id, call, max_running_processes, db_lock>>

\* ------------------------------------------------------------ document_handler
\* the files table has room for NumFiles ids in all
Uploading == {t \in Threads : thr[t].pc \in {"quota", "add"}}

RequestUpload(t) ==
    /\ Free(t)
    /\ last_id + Cardinality(Uploading) < NumFiles
    /\ thr' = [thr EXCEPT ![t] = [Idle EXCEPT !.pc = "quota", !.op = "upload"]]
    /\ UNCHANGED <<files, runs, processes, proc_lock, os, mon, closes, last_id, call, max_running_processes, db_lock>>

\* the file limit: list_user_files, read without a lock, against MAX_FILES_PER_USER
UploadQuota(t) ==
    /\ thr[t].pc = "quota"
    /\ thr' = [thr EXCEPT ![t] = IF Cardinality(list_user_files(files)) >= MAX_FILES_PER_USER
                                 THEN Idle
                                 ELSE [@ EXCEPT !.pc = "add"]]
    /\ UNCHANGED <<files, runs, processes, proc_lock, os, mon, closes, nreq, last_id, call, max_running_processes, db_lock>>

\* the download, the save and the extraction, each of which can fail and return;
\* then add_file_record, and for a single source file the start that follows
UploadAdd(t) ==
    /\ thr[t].pc = "add"
    /\ \/ /\ thr' = [thr EXCEPT ![t] = Idle]
          /\ UNCHANGED <<files, last_id, call, max_running_processes, db_lock>>
       \/ /\ last_id' = last_id + 1
          /\ files' = add_file_record(files, last_id + 1)
          /\ \/ thr' = [thr EXCEPT ![t] = Idle]
             \/ thr' = [thr EXCEPT ![t] =
                          [Idle EXCEPT !.pc = "admit", !.op = "start", !.fid = last_id + 1]]
    /\ UNCHANGED <<runs, processes, proc_lock, os, mon, closes, nreq, call, max_running_processes, db_lock>>

UploadStep(t) ==
    \/ UploadQuota(t)
    \/ UploadAdd(t)

\* ------------------------------------------------------------- specifications
StartStep(t) ==
    \/ StartAdmit(t)
    \/ StartLookup(t)
    \/ StartInstall(t)
    \/ StartSpawn(t)
    \/ StartFailed(t)
    \/ StartRegister(t)
    \/ StartMonitor(t)

StopStep(t) ==
    \/ StopLock(t)
    \/ StopPop(t)
    \/ StopStatus(t)

DeleteStep(t) ==
    \/ DeleteLookup(t)
    \/ DeleteRemove(t)

MonitorStep(r) ==
    \/ MonitorFinish(r)
    \/ MonitorPop(r)

\* a worker thread goes on with the request it serves
ThreadStep(t) == StartStep(t) \/ StopStep(t) \/ DeleteStep(t)

Next ==
    \/ \E t \in Threads, f \in FileIds : RequestStart(t, f)
    \/ \E t \in Threads, f \in FileIds : RequestStop(t, f)
    \/ \E t \in Threads, f \in FileIds : RequestRestart(t, f)
    \/ \E t \in Threads, f \in FileIds : RequestDelete(t, f)
    \/ \E t \in Threads : StartStep(t)
    \/ \E t \in Threads : StopStep(t)
    \/ \E t \in Threads : DeleteStep(t)
    \/ \E r \in RunIds : MonitorStep(r)
    \/ \E p \in RunIds : ProcExit(p)

Spec == Init /\ [][Next]_vars

\* every thread that can take a step of its code eventually takes it; a script
\* may run for ever and a user may send nothing more
Fairness ==
    /\ \A t \in Threads : WF_vars(ThreadStep(t))
    /\ \A r \in RunIds : WF_vars(MonitorStep(r))

FairSpec == Spec /\ Fairness

TypeOK ==
    /\ proc_lock \in {None} \cup Threads \cup {NumThreads + r : r \in RunIds}
    /\ db_lock \in {None} \cup Threads \cup {NumThreads + r : r \in RunIds}
    /\ Len(os) <= MaxRequests
    /\ nreq \in 0..MaxRequests
    /\ max_running_processes \in 1..MAX_RUNNING_PROCESSES
    /\ Len(runs) <= Len(os)
    /\ \A f \in FileIds : files[f].status \in {"Stopped", "Running"}

\* the program when the users only ask for starts, one request at a time (the
\* callers serialise their requests): no stop, restart or delete is ever asked
Quiet == \A t \in Threads : thr[t].pc = "idle"

NextStartsOnly ==
    \/ \E t \in Threads, f \in FileIds : Quiet /\ RequestStart(t, f)
    \/ \E t \in Threads : StartStep(t)
    \/ \E r \in RunIds : MonitorStep(r)
    \/ \E p \in RunIds : ProcExit(p)

SpecStartsOnly == Init /\ [][NextStartsOnly]_vars /\ Fairness

\* the program with a store whose updates can fail inside the monitor
NextFault ==
    \/ Next
    \/ \E r \in RunIds : MonitorFault(r)

SpecFault == Init /\ [][NextFault]_vars

\* the program when the callers serialise their requests: a request is sent
\* only when no other request is being served
NextSerial ==
    \/ \E t \in Threads, f \in FileIds : Quiet /\ RequestStart(t, f)
    \/ \E t \in Threads, f \in FileIds : Quiet /\ RequestStop(t, f)
    \/ \E t \in Threads, f \in FileIds : Quiet /\ RequestRestart(t, f)
    \/ \E t \in Threads, f \in FileIds : Quiet /\ RequestDelete(t, f)
    \/ \E t \in Threads : StartStep(t)
    \/ \E t \in Threads : StopStep(t)
    \/ \E t \in Threads : DeleteStep(t)
    \/ \E r \in RunIds : MonitorStep(r)
    \/ \E p \in RunIds : ProcExit(p)

SpecSerial == Init /\ [][NextSerial]_vars

\* the program from an empty files table, with upload and delete requests
InitUpload ==
    /\ files = [f \in FileIds |-> [exists |-> FALSE, status |-> "Stopped", pid |-> None]]
    /\ runs = <<>>
    /\ processes = [f \in FileIds |-> NoJob]
    /\ proc_lock = None
    /\ os = <<>>
    /\ thr = [t \in Threads |-> Idle]
    /\ mon = [r \in RunIds |-> NoMonitor]
    /\ closes = [r \in RunIds |-> <<>>]
    /\ nreq = 0
    /\ last_id = 0
    /\ call = NoCall
    /\ max_running_processes = MAX_RUNNING_PROCESSES
    /\ db_lock = None

NextUpload ==
    \/ \E t \in Threads : RequestUpload(t)
    \/ \E t \in Threads, f \in FileIds : RequestDelete(t, f)
    \/ \E t \in Threads : UploadStep(t)
    \/ \E t \in Threads : StartStep(t)
    \/ \E t \in Threads : StopStep(t)
    \/ \E t \in Threads : DeleteStep(t)
    \/ \E r \in RunIds : MonitorStep(r)
    \/ \E p \in RunIds : ProcExit(p)

SpecUpload == InitUpload /\ [][NextUpload]_vars

\* one user who presses a button of the keyboard that show_file_management has
\* just built, and waits for the answer: Start is offered for an artifact whose
\* id is not in the job table, Stop for one whose id is, Restart and Delete for
\* both
NextButtons ==
    \/ \E t \in Threads, f \in FileIds :
          Quiet /\ f \notin LiveIds /\ RequestStart(t, f)
    \/ \E t \in Threads, f \in FileIds :
          Quiet /\ f \in LiveIds /\ RequestStop(t, f)
    \/ \E t \in Threads, f \in FileIds : Quiet /\ RequestRestart(t, f)
    \/ \E t \in Threads, f \in FileIds : Quiet /\ RequestDelete(t, f)
    \/ \E t \in Threads : StartStep(t)
    \/ \E t \in Threads : StopStep(t)
    \/ \E t \in Threads : DeleteStep(t)
    \/ \E r \in RunIds : MonitorStep(r)
    \/ \E p \in RunIds : ProcExit(p)

SpecButtons == Init /\ [][NextButtons]_vars

\* a deployment configured with a smaller maximum, on a host where psutil
\* always answers
InitBurst ==
    /\ files = [f \in FileIds |-> [exists |-> TRUE, status |-> "Stopped", pid |-> None]]
    /\ runs = <<>>
    /\ processes = [f \in FileIds |-> NoJob]
    /\ proc_lock = None
    /\ os = <<>>
    /\ thr = [t \in Threads |-> Idle]
    /\ mon = [r \in RunIds |-> NoMonitor]
    /\ closes = [r \in RunIds |-> <<>>]
    /\ nreq = 0
    /\ last_id = NumFiles
    /\ call = NoCall
    /\ max_running_processes = MAX_RUNNING_PROCESSES - 1
    /\ db_lock = None

NextBurst ==
    \/ \E t \in Threads, f \in FileIds : RequestStart(t, f)
    \/ \E t \in Threads, f \in FileIds : RequestStop(t, f)
    \/ \E t \in Threads, f \in FileIds : RequestRestart(t, f)
    \/ \E t \in Threads, f \in FileIds : RequestDelete(t, f)
    \/ \E t \in Threads : StartAdmitSampled(t)
    \/ \E t \in Threads : StartLookup(t)
    \/ \E t \in Threads : StartInstall(t)
    \/ \E t \in Threads : StartSpawn(t)
    \/ \E t \in Threads : StartFailed(t)
    \/ \E t \in Threads : StartRegister(t)
    \/ \E t \in Threads : StartMonitor(t)
    \/ \E t \in Threads : StopStep(t)
    \/ \E t \in Threads : DeleteStep(t)
    \/ \E r \in RunIds : MonitorStep(r)
    \/ \E p \in RunIds : ProcExit(p)

SpecBurst == InitBurst /\ [][NextBurst]_vars

\* ------------------------------------------------------------ logs
\* the logs button of an artifact is pressed
RequestLogs(t, f) ==
    /\ Free(t)
    /\ thr' = [thr EXCEPT ![t] = [Idle EXCEPT !.pc = "logs_lock", !.op = "logs", !.fid = f]]
    /\ UNCHANGED <<files, runs, processes, proc_lock, os, mon, closes, last_id, call, max_running_processes, db_lock>>

\* the Runs of an artifact, by run id
RunsOf(f) == {r \in 1..Len(runs) : runs[r].file_id = f}

Max(S) == CHOOSE x \in S : \A y \in S : y <= x

\* get_file_logs under proc_lock: the log of the LiveJob when the id is a key
\* of the job table; the log file was created before the job was registered
\* and nothing removes it. thr[t].run_id is the Run whose log is read.
LogsLock(t) ==
    /\ thr[t].pc = "logs_lock"
    /\ proc_lock = None
    /\ IF processes[thr[t].fid] # NoJob
       THEN thr' = [thr EXCEPT ![t].pc = "logs_reply",
                               ![t].run_id = processes[thr[t].fid].run_id]
       ELSE thr' = [thr EXCEPT ![t].pc = "logs_query"]
    /\ UNCHANGED <<files, runs, processes, proc_lock, os, mon, closes, nreq, last_id, call, max_running_processes, db_lock>>

\* a query that would take the oldest Run of the artifact
LogsQuery_first_run(t) ==
    /\ thr[t].pc = "logs_query"
    /\ IF RunsOf(thr[t].fid) # {}
       THEN thr' = [thr EXCEPT ![t].pc = "logs_reply", ![t].run_id = Min(RunsOf(thr[t].fid))]
       ELSE thr' = [thr EXCEPT ![t].pc = "logs_reply"]
    /\ UNCHANGED <<files, runs, processes, proc_lock, os, mon, closes, nreq, last_id, call, max_running_processes, db_lock>>

\* SELECT log_path FROM runs WHERE file_id=? ORDER BY started_at DESC LIMIT 1;
\* without a row the answer is "No log file found" and run_id stays None
LogsQuery(t) ==
    /\ thr[t].pc = "logs_query"
    /\ IF RunsOf(thr[t].fid) # {}
       THEN thr' = [thr EXCEPT ![t].pc = "logs_reply", ![t].run_id = Max(RunsOf(thr[t].fid))]
       ELSE thr' = [thr EXCEPT ![t].pc = "logs_reply"]
    /\ UNCHANGED <<files, runs, processes, proc_lock, os, mon, closes, nreq, last_id, call, max_running_processes, db_lock>>

\* get_file_record for the title, and the message with the log text
LogsReply(t) ==
    /\ thr[t].pc = "logs_reply"
    /\ thr' = [thr EXCEPT ![t] = Idle]
    /\ UNCHANGED <<files, runs, processes, proc_lock, os, mon, closes, nreq, last_id, call, max_running_processes, db_lock>>

LogsStep(t) == LogsLock(t) \/ LogsQuery(t) \/ LogsReply(t)

\* the supervisor with the logs button
NextLogs ==
    \/ Next
    \/ \E t \in Threads, f \in FileIds : RequestLogs(t, f)
    \/ \E t \in Threads : LogsStep(t)

SpecLogs == Init /\ [][NextLogs]_vars

\* the entry-point resolver applied to a directory tree
InitResolve ==
    /\ files = [f \in FileIds |-> [exists |-> TRUE, status |-> "Stopped", pid |-> None]]
    /\ runs = <<>>
    /\ processes = [f \in FileIds |-> NoJob]
    /\ proc_lock = None
    /\ os = <<>>
    /\ thr = [t \in Threads |-> Idle]
    /\ mon = [r \in RunIds |-> NoMonitor]
    /\ closes = [r \in RunIds |-> <<>>]
    /\ nreq = 0
    /\ last_id = NumFiles
    /\ call \in ResolveCalls
    /\ max_running_processes = MAX_RUNNING_PROCESSES
    /\ db_lock = None

SpecResolve == InitResolve /\ [][ResolveCall]_vars

\* the document handler applied to an uploaded document
InitDocument ==
    /\ files = [f \in FileIds |-> [exists |-> TRUE, status |-> "Stopped", pid |-> None]]
    /\ runs = <<>>
    /\ processes = [f \in FileIds |-> NoJob]
    /\ proc_lock = None
    /\ os = <<>>
    /\ thr = [t \in Threads |-> Idle]
    /\ mon = [r \in RunIds |-> NoMonitor]
    /\ closes = [r \in RunIds |-> <<>>]
    /\ nreq = 0
    /\ last_id = NumFiles
    /\ \E nm \in UploadNames, ok \in BOOLEAN :
          \E tr \in ExtractedTrees(nm, ok) :
              call = [op |-> "document", name |-> nm, intact |-> ok, tree |-> tr,
                      done |-> FALSE,
                      result |-> [stored |-> FALSE, kind |-> "unknown", main |-> NotFound]]
    /\ max_running_processes = MAX_RUNNING_PROCESSES
    /\ db_lock = None

SpecDocument == InitDocument /\ [][DocumentCall]_vars

\* ------------------------------------------------- the early returns of start
\* The supervisor with the error returns of start_file_process in two steps:
\* the test that fails, and the error message with the return.
LookupErrors == {"no_record", "no_main_file", "unsupported"}

\* a lookup that would write the status Stopped when it finds nothing to run
Lookup_resetting_status(t) ==
    /\ thr[t].pc = "lookup"
    /\ IF ~files[thr[t].fid].exists
       THEN thr' = [thr EXCEPT ![t].pc = "no_record"] /\ files' = files
       ELSE \/ thr' = [thr EXCEPT ![t].pc = "install"] /\ files' = files
            \/ thr' = [thr EXCEPT ![t].pc = "spawn"] /\ files' = files
            \/ /\ \E e \in {"no_main_file", "unsupported"} : thr' = [thr EXCEPT ![t].pc = e]
               /\ files' = update_file_status(files, thr[t].fid, None, "Stopped")
    /\ UNCHANGED <<runs, processes, proc_lock, os, mon, closes, nreq, last_id, call, max_running_processes, db_lock>>

\* get_file_record returns nothing; or find_main_file returns nothing or the
\* file is gone; or the extension is neither .py nor .js; or there is a .py
\* entry point, which goes through the dependency installation, or a .js one
Lookup(t) ==
    /\ thr[t].pc = "lookup"
    /\ IF ~files[thr[t].fid].exists
       THEN thr' = [thr EXCEPT ![t].pc = "no_record"]
       ELSE \/ thr' = [thr EXCEPT ![t].pc = "install"]
            \/ thr' = [thr EXCEPT ![t].pc = "spawn"]
            \/ \E e \in {"no_main_file", "unsupported"} : thr' = [thr EXCEPT ![t].pc = e]
    /\ files' = files
    /\ UNCHANGED <<runs, processes, proc_lock, os, mon, closes, nreq, last_id, call, max_running_processes, db_lock>>

\* bot.send_message with the error, and return
LookupFailed(t) ==
    /\ thr[t].pc \in LookupErrors
    /\ thr' = [thr EXCEPT ![t] = Idle]
    /\ UNCHANGED <<files, runs, processes, proc_lock, os, mon, closes, nreq, last_id, call, max_running_processes, db_lock>>

NextStartErrors ==
    \/ \E t \in Threads, f \in FileIds : RequestStart(t, f)
    \/ \E t \in Threads, f \in FileIds : RequestStop(t, f)
    \/ \E t \in Threads, f \in FileIds : RequestRestart(t, f)
    \/ \E t \in Threads, f \in FileIds : RequestDelete(t, f)
    \/ \E t \in Threads : StartAdmit(t)
    \/ \E t \in Threads : Lookup(t)
    \/ \E t \in Threads : LookupFailed(t)
    \/ \E t \in Threads : StartInstall(t)
    \/ \E t \in Threads : StartSpawn(t)
    \/ \E t \in Threads : StartFailed(t)
    \/ \E t \in Threads : StartRegister(t)
    \/ \E t \in Threads : StartMonitor(t)
    \/ \E t \in Threads : StopStep(t)
    \/ \E t \in Threads : DeleteStep(t)
    \/ \E r \in RunIds : MonitorStep(r)
    \/ \E p \in RunIds : ProcExit(p)

SpecStartErrors == Init /\ [][NextStartErrors]_vars

\* ------------------------------------------------------------ two tenants
\* Every artifact was uploaded by the tenant Owner. callback_handler reads
\* user_id from the callback and hands it to show_file_management and to
\* send_files_list only: the start, stop, restart, delete and logs branches
\* take the file id from the callback data and never look at user_id.
Owner == "owner"

Intruder == "intruder"

\* the manage button of an artifact is pressed
RequestManage(t, f) ==
    /\ Free(t)
    /\ thr' = [thr EXCEPT ![t] = [Idle EXCEPT !.pc = "manage", !.op = "manage", !.fid = f]]
    /\ UNCHANGED <<files, runs, processes, proc_lock, os, mon, closes, last_id, call, max_running_processes, db_lock>>

\* show_file_management for the tenant user_id: "File not found" without a
\* record, "Access denied" when the record belongs to another tenant, else the
\* status read under proc_lock and the keyboard
show_file_management(t, user_id) ==
    /\ thr[t].pc = "manage"
    /\ \/ ~files[thr[t].fid].exists
       \/ Owner # user_id
       \/ proc_lock = None
    /\ thr' = [thr EXCEPT ![t] = Idle]
    /\ UNCHANGED <<files, runs, processes, proc_lock, os, mon, closes, nreq, last_id, call, max_running_processes, db_lock>>

\* the supervisor when every callback comes from the tenant Intruder
NextIntruder ==
    \/ \E t \in Threads, f \in FileIds : RequestStart(t, f)
    \/ \E t \in Threads, f \in FileIds : RequestStop(t, f)
    \/ \E t \in Threads, f \in FileIds : RequestRestart(t, f)
    \/ \E t \in Threads, f \in FileIds : RequestDelete(t, f)
    \/ \E t \in Threads, f \in FileIds : RequestLogs(t, f)
    \/ \E t \in Threads, f \in FileIds : RequestManage(t, f)
    \/ \E t \in Threads : show_file_management(t, Intruder)
    \/ \E t \in Threads : ThreadStep(t)
    \/ \E t \in Threads : LogsStep(t)
    \/ \E r \in RunIds : MonitorStep(r)
    \/ \E p \in RunIds : ProcExit(p)

SpecIntruder == Init /\ [][NextIntruder]_vars

\* the supervisor on a host where psutil raises at every sampling, when the
\* users only ask for starts, one request at a time
NextFailOpen ==
    \/ \E t \in Threads, f \in FileIds : Quiet /\ RequestStart(t, f)
    \/ \E t \in Threads : StartAdmitFailing(t)
    \/ \E t \in Threads : StartLookup(t)
    \/ \E t \in Threads : StartInstall(t)
    \/ \E t \in Threads : StartSpawn(t)
    \/ \E t \in Threads : StartFailed(t)
    \/ \E t \in Threads : StartRegister(t)
    \/ \E t \in Threads : StartMonitor(t)
    \/ \E r \in RunIds : MonitorStep(r)
    \/ \E p \in RunIds : ProcExit(p)

SpecFailOpen == Init /\ [][NextFailOpen]_vars

\* the admission decision applied to a sampled load
InitAdmission ==
    /\ files = [f \in FileIds |-> [exists |-> TRUE, status |-> "Stopped", pid |-> None]]
    /\ runs = <<>>
    /\ processes = [f \in FileIds |-> NoJob]
    /\ proc_lock = None
    /\ os = <<>>
    /\ thr = [t \in Threads |-> Idle]
    /\ mon = [r \in RunIds |-> NoMonitor]
    /\ closes = [r \in RunIds |-> <<>>]
    /\ nreq = 0
    /\ last_id = NumFiles
    /\ max_running_processes = MAX_RUNNING_PROCESSES
    /\ db_lock = None
    /\ \E c \in CpuValues, m \in MemValues, n \in CountValues :
          call = [op |-> "admission",
                  load |-> [cpu |-> c, memory |-> m, process_count |-> n],
                  done |-> FALSE, result |-> <<FALSE, "">>]

SpecAdmission == InitAdmission /\ [][AdmissionCall]_vars

\* ------------------------------------------------------------ the two locks
\* The supervisor with every with-block in two steps: the thread enters the
\* block when the lock is free, and executes the body and leaves. A lock holds
\* the thread inside its block: a worker thread, or the monitor of a Run.
MonId(r) == NumThreads + r

\* subprocess.Popen, or the exception of open() or Popen
Popen(t) ==
    /\ thr[t].pc = "spawn"
    /\ \/ /\ os' = Append(os, [fid |-> thr[t].fid, alive |-> TRUE, code |-> None])
          /\ thr' = [thr EXCEPT ![t].pc = "run_start", ![t].process = Len(os) + 1]
       \/ /\ thr' = [thr EXCEPT ![t].pc = "spawn_failed"]
          /\ os' = os
    /\ UNCHANGED <<files, runs, processes, proc_lock, mon, closes, nreq, last_id, call, max_running_processes, db_lock>>

\* a worker thread that would not wait for db_lock
DbEnter_no_wait(t) ==
    /\ thr[t].pc \in {"run_start", "status", "stop_status", "remove"}
    /\ db_lock' = t
    /\ thr' = [thr EXCEPT ![t].pc =
                  CASE thr[t].pc = "run_start" -> "run_start_in"
                    [] thr[t].pc = "status" -> "status_in"
                    [] thr[t].pc = "stop_status" -> "stop_status_in"
                    [] OTHER -> "remove_in"]
    /\ UNCHANGED <<files, runs, processes, proc_lock, os, mon, closes, nreq, last_id, call, max_running_processes>>

\* a worker thread enters the with db_lock block of the store helper it calls
DbEnter(t) ==
    /\ thr[t].pc \in {"run_start", "status", "stop_status", "remove"}
    /\ db_lock = None
    /\ db_lock' = t
    /\ thr' = [thr EXCEPT ![t].pc =
                  CASE thr[t].pc = "run_start" -> "run_start_in"
                    [] thr[t].pc = "status" -> "status_in"
                    [] thr[t].pc = "stop_status" -> "stop_status_in"
                    [] OTHER -> "remove_in"]
    /\ UNCHANGED <<files, runs, processes, proc_lock, os, mon, closes, nreq, last_id, call, max_running_processes>>

\* record_run_start inside db_lock
RunStartLeave(t) ==
    /\ thr[t].pc = "run_start_in"
    /\ runs' = record_run_start(runs, thr[t].fid, thr[t].process)
    /\ db_lock' = None
    /\ thr' = [thr EXCEPT ![t].pc = "status", ![t].run_id = Len(runs) + 1]
    /\ UNCHANGED <<files, processes, proc_lock, os, mon, closes, nreq, last_id, call, max_running_processes>>

\* update_file_status(file_id, process.pid, "Running") inside db_lock
StatusLeave(t) ==
    /\ thr[t].pc = "status_in"
    /\ files' = update_file_status(files, thr[t].fid, thr[t].process, "Running")
    /\ db_lock' = None
    /\ thr' = [thr EXCEPT ![t].pc = "register"]
    /\ UNCHANGED <<runs, processes, proc_lock, os, mon, closes, nreq, last_id, call, max_running_processes>>

\* with proc_lock, in start_file_process and in get_file_logs
ProcEnter(t) ==
    /\ thr[t].pc \in {"register", "logs_lock"}
    /\ proc_lock = None
    /\ proc_lock' = t
    /\ thr' = [thr EXCEPT ![t].pc = IF thr[t].pc = "register" THEN "register_in"
                                    ELSE "logs_lock_in"]
    /\ UNCHANGED <<files, runs, processes, os, mon, closes, nreq, last_id, call, max_running_processes, db_lock>>

\* processes[file_id] = {...} inside proc_lock
RegisterLeave(t) ==
    /\ thr[t].pc = "register_in"
    /\ processes' = [processes EXCEPT ![thr[t].fid] =
                        [process |-> thr[t].process, run_id |-> thr[t].run_id]]
    /\ proc_lock' = None
    /\ thr' = [thr EXCEPT ![t].pc = "monitor"]
    /\ UNCHANGED <<files, runs, os, mon, closes, nreq, last_id, call, max_running_processes, db_lock>>

\* the lookup of get_file_logs inside proc_lock
LogsLeave(t) ==
    /\ thr[t].pc = "logs_lock_in"
    /\ IF processes[thr[t].fid] # NoJob
       THEN thr' = [thr EXCEPT ![t].pc = "logs_reply",
                               ![t].run_id = processes[thr[t].fid].run_id]
       ELSE thr' = [thr EXCEPT ![t].pc = "logs_query"]
    /\ proc_lock' = None
    /\ UNCHANGED <<files, runs, processes, os, mon, closes, nreq, last_id, call, max_running_processes, db_lock>>

\* update_file_status(file_id, None, "Stopped") inside db_lock, and what the
\* handler does after stop_file_process has returned
StopStatusLeave(t) ==
    /\ thr[t].pc = "stop_status_in"
    /\ files' = update_file_status(files, thr[t].fid, None, "Stopped")
    /\ db_lock' = None
    /\ thr' = [thr EXCEPT ![t] =
                 CASE thr[t].op = "stop" -> Idle
                   [] thr[t].op = "restart" ->
                        [Idle EXCEPT !.pc = "admit", !.op = "restart", !.fid = thr[t].fid]
                   [] OTHER ->
                        [Idle EXCEPT !.pc = "remove", !.op = "delete", !.fid = thr[t].fid]]
    /\ UNCHANGED <<runs, processes, proc_lock, os, mon, closes, nreq, last_id, call, max_running_processes>>

\* remove_file_record inside db_lock
RemoveLeave(t) ==
    /\ thr[t].pc = "remove_in"
    /\ files' = remove_file_record(files, thr[t].fid)
    /\ db_lock' = None
    /\ thr' = [thr EXCEPT ![t] = Idle]
    /\ UNCHANGED <<runs, processes, proc_lock, os, mon, closes, nreq, last_id, call, max_running_processes>>

\* process.wait() has returned in the monitor, which enters the db_lock block
\* of update_file_status, and later the one of record_run_finish
MonDbEnter(r) ==
    /\ \/ mon[r].pc = "wait" /\ ~os[mon[r].process].alive
       \/ mon[r].pc = "finish"
    /\ db_lock = None
    /\ db_lock' = MonId(r)
    /\ mon' = [mon EXCEPT ![r] =
                  IF mon[r].pc = "wait"
                  THEN [@ EXCEPT !.pc = "status_in", !.exit_code = os[mon[r].process].code]
                  ELSE [@ EXCEPT !.pc = "finish_in"]]
    /\ UNCHANGED <<files, runs, processes, proc_lock, os, thr, closes, nreq, last_id, call, max_running_processes>>

MonStatusLeave(r) ==
    /\ mon[r].pc = "status_in"
    /\ files' = update_file_status(files, mon[r].file_id, None, "Stopped")
    /\ db_lock' = None
    /\ mon' = [mon EXCEPT ![r].pc = "finish"]
    /\ UNCHANGED <<runs, processes, proc_lock, os, thr, closes, nreq, last_id, call, max_running_processes>>

\* a monitor that would remove its entry while it is still inside db_lock
MonFinishLeave_nested(r) ==
    /\ mon[r].pc = "finish_in"
    /\ proc_lock = None
    /\ runs' = record_run_finish(runs, r, mon[r].exit_code)
    /\ closes' = [closes EXCEPT ![r] = Append(@, "monitor")]
    /\ proc_lock' = MonId(r)
    /\ mon' = [mon EXCEPT ![r].pc = "pop_in"]
    /\ UNCHANGED <<files, processes, db_lock, os, thr, nreq, last_id, call, max_running_processes>>

MonFinishLeave(r) ==
    /\ mon[r].pc = "finish_in"
    /\ runs' = record_run_finish(runs, r, mon[r].exit_code)
    /\ closes' = [closes EXCEPT ![r] = Append(@, "monitor")]
    /\ db_lock' = None
    /\ mon' = [mon EXCEPT ![r].pc = "pop"]
    /\ UNCHANGED <<files, processes, proc_lock, os, thr, nreq, last_id, call, max_running_processes>>

MonProcEnter(r) ==
    /\ mon[r].pc = "pop"
    /\ proc_lock = None
    /\ proc_lock' = MonId(r)
    /\ mon' = [mon EXCEPT ![r].pc = "pop_in"]
    /\ UNCHANGED <<files, runs, processes, os, thr, closes, nreq, last_id, call, max_running_processes, db_lock>>

\* processes.pop(file_id, None) inside proc_lock
MonPopLeave(r) ==
    /\ mon[r].pc = "pop_in"
    /\ processes' = [processes EXCEPT ![mon[r].file_id] = NoJob]
    /\ proc_lock' = None
    /\ mon' = [mon EXCEPT ![r].pc = "done"]
    /\ UNCHANGED <<files, runs, os, thr, closes, nreq, last_id, call, max_running_processes, db_lock>>

LockedThreadStep(t) ==
    \/ StartAdmitSampled(t)
    \/ StartLookup(t)
    \/ StartInstall(t)
    \/ Popen(t)
    \/ StartFailed(t)
    \/ DbEnter(t)
    \/ RunStartLeave(t)
    \/ StatusLeave(t)
    \/ ProcEnter(t)
    \/ RegisterLeave(t)
    \/ StartMonitor(t)
    \/ StopLock(t)
    \/ StopPop(t)
    \/ StopStatusLeave(t)
    \/ DeleteLookup(t)
    \/ RemoveLeave(t)
    \/ LogsLeave(t)
    \/ LogsQuery(t)
    \/ LogsReply(t)

LockedMonitorStep(r) ==
    \/ MonDbEnter(r)
    \/ MonStatusLeave(r)
    \/ MonFinishLeave(r)
    \/ MonProcEnter(r)
    \/ MonPopLeave(r)

\* the artifact whose buttons the users press; the two locks are the same for
\* every artifact
Pressed == CHOOSE f \in FileIds : \A g \in FileIds : f <= g

NextLocks ==
    \/ \E t \in Threads : RequestStart(t, Pressed)
    \/ \E t \in Threads : RequestStop(t, Pressed)
    \/ \E t \in Threads : RequestRestart(t, Pressed)
    \/ \E t \in Threads : RequestDelete(t, Pressed)
    \/ \E t \in Threads : RequestLogs(t, Pressed)
    \/ \E t \in Threads : LockedThreadStep(t)
    \/ \E r \in RunIds : LockedMonitorStep(r)
    \/ \E p \in RunIds : ProcExit(p)

SpecLocks == Init /\ [][NextLocks]_vars

\* ---------------------------------------------------------------- the claims
OpenRuns(f) == {r \in 1..Len(runs) : runs[r].file_id = f /\ ~runs[r].finished}

LiveProcesses(f) == {p \in 1..Len(os) : os[p].fid = f /\ os[p].alive}

\* C1: in every reachable state every Artifact has at most one open Run (a
\* runs row of its file_id with no finished_at / exit_code yet)
C1_AtMostOneOpenRun == \A f \in FileIds : Cardinality(OpenRuns(f)) <= 1

\* C2: in every reachable state at most one OS process spawned for a given
\* Artifact id is alive
C2_AtMostOneLiveProcess == \A f \in FileIds : Cardinality(LiveProcesses(f)) <= 1

\* C3: start(id) on an Artifact that has a LiveJob in the job table is rejected:
\* its admission step returns, and no process, Run or LiveJob is touched
C3_StartOnRunningRejected ==
    [][\A t \in Threads :
          (thr[t].pc = "admit" /\ thr[t].fid \in LiveIds /\ thr'[t] # thr[t])
              => (thr'[t] = Idle /\ UNCHANGED <<os, runs, processes>>)]_vars

\* C4: once the process of a Run has ended by itself with exit code c, and no
\* stop is ever requested, eventually the Artifact is Stopped with no pid, the
\* Run is closed with exit code c and the Artifact has no LiveJob
Exited(r, c) ==
    /\ r <= Len(runs)
    /\ ~os[runs[r].pid].alive
    /\ os[runs[r].pid].code = c
    /\ mon[r].pc \in {"none", "wait"}

Settled(r, c) ==
    /\ r <= Len(runs)
    /\ runs[r].finished
    /\ runs[r].exit_code = c
    /\ files[runs[r].file_id].status = "Stopped"
    /\ files[runs[r].file_id].pid = None
    /\ processes[runs[r].file_id] = NoJob

C4_ExitLeadsToStopped ==
    \A r \in RunIds : \A c \in ExitCodes : Exited(r, c) ~> Settled(r, c)

\* C5: whenever the job table holds MAX_RUNNING_PROCESSES LiveJobs or more at
\* the moment a start evaluates admission, the start returns there (a rejection)
\* and spawns no process, creates no Run, registers no LiveJob and changes no
\* Artifact status
C5_FullTableRejects ==
    [][\A t \in Threads :
          (thr[t].pc = "admit" /\ Cardinality(LiveIds) >= MAX_RUNNING_PROCESSES
                               /\ thr'[t] # thr[t])
              => (thr'[t] = Idle /\ UNCHANGED <<files, runs, processes, os>>)]_vars

\* the step with which stop_file_process returns to the handler
StopReturns(t) == thr[t].pc = "stop_status" /\ thr'[t] # thr[t]

\* C6 as stated: when a stop that found a LiveJob with a live process returns,
\* the job table has no LiveJob for id, the Artifact is Stopped and the process
\* is no longer alive
C6_StopLeavesNoLiveJob ==
    [][\A t \in Threads :
          (StopReturns(t) /\ thr[t].stopped)
              => /\ processes'[thr[t].fid] = NoJob
                 /\ files'[thr[t].fid].status = "Stopped"
                 /\ ~os'[thr[t].process].alive]_vars

\* C6 amended: when a stop that found a LiveJob with a live process returns, the
\* LiveJob it found has been removed from the job table (under the lock it was
\* found with), the Artifact's status has been written Stopped with no pid, and
\* the process is no longer alive: it ended after the termination signal or was
\* force-killed and its exit awaited.  Another LiveJob registered for the same
\* id by a concurrent start may be in the job table
C6_StopRemovesTheJobItFound ==
    [][\A t \in Threads :
          /\ (thr[t].pc = "stop_pop" /\ thr'[t] # thr[t])
                => (processes'[thr[t].fid] = NoJob /\ proc_lock' = None)
          /\ (StopReturns(t) /\ thr[t].stopped)
                => /\ processes'[thr[t].fid].run_id # thr[t].run_id
                   /\ files'[thr[t].fid].status = "Stopped"
                   /\ files'[thr[t].fid].pid = None
                   /\ ~os'[thr[t].process].alive
                   /\ os'[thr[t].process].code \in {-SIGTERM, -SIGKILL} \cup ExitCodes]_vars

\* a stop is about to return after a force-kill while a concurrent start has
\* registered a new LiveJob for the same id
C6_Witness ==
    \E t \in Threads :
        /\ thr[t].pc = "stop_status"
        /\ thr[t].stopped
        /\ os[thr[t].process].code = -SIGKILL
        /\ processes[thr[t].fid] # NoJob

StopFound(r) == \E t \in Threads : thr[t].pc = "stop_pop" /\ thr[t].run_id = r

Closed(r) ==
    /\ r <= Len(runs)
    /\ runs[r].finished
    /\ ~os[runs[r].pid].alive
    /\ runs[r].exit_code = os[runs[r].pid].code

RunsWellFormed ==
    /\ \A r \in 1..Len(runs) :
          /\ runs[r].pid \in 1..Len(os)
          /\ os[runs[r].pid].fid = runs[r].file_id
          /\ Len(closes[r]) <= 1
          /\ \A i \in 1..Len(closes[r]) : closes[r][i] = "monitor"
          /\ runs[r].finished <=> Len(closes[r]) = 1
          /\ runs[r].finished => ~os[runs[r].pid].alive
    /\ \A r \in RunIds : r > Len(runs) => closes[r] = <<>>

RunsStep ==
    /\ Len(runs') >= Len(runs)
    /\ Len(runs') > Len(runs)
          => /\ Len(runs') = Len(runs) + 1
             /\ Len(os') = Len(os) + 1
             /\ runs'[Len(runs')].pid = Len(os')
             /\ ~runs'[Len(runs')].finished
    /\ \A r \in 1..Len(runs) :
          /\ runs'[r].file_id = runs[r].file_id
          /\ runs'[r].pid = runs[r].pid
          /\ runs[r].finished => runs'[r] = runs[r]
          /\ (~runs[r].finished /\ runs'[r].finished)
                => /\ mon[r].pc = "wait" /\ mon'[r].pc = "pop"
                   /\ mon[r].process = runs[r].pid
                   /\ thr' = thr

\* C8: a Run row is created only in the step in which a spawn succeeds and
\* names the spawned process; record_run_finish is applied to a Run at most
\* once, by the Run's own monitor and after its process has ended, never by a
\* step of stop or delete; a closed Run is never modified again
C8_RunClosedOnceByItsMonitor == []RunsWellFormed /\ [][RunsStep]_vars

\* the Run of a deleted Artifact whose process delete's stop has terminated was
\* closed by its monitor
C8_Witness ==
    \E r \in 1..Len(runs) :
        /\ runs[r].finished
        /\ closes[r] = <<"monitor">>
        /\ runs[r].exit_code = -SIGTERM
        /\ ~files[runs[r].file_id].exists

\* C9: a stop that finds no LiveJob for id signals no process, creates or closes
\* no Run, leaves the job table unchanged and leaves the Artifact Stopped with no
\* pid; on an Artifact that is already Stopped it changes nothing at all, so
\* repeating it yields the same state
C9_StopWithoutLiveJobIsNoOp ==
    [][\A t \in Threads :
          /\ (thr[t].pc = "stop_lock" /\ thr'[t] # thr[t] /\ processes[thr[t].fid] = NoJob)
                => /\ UNCHANGED <<files, runs, processes, proc_lock, os, mon, closes>>
                   /\ thr'[t].process = None /\ ~thr'[t].stopped
          /\ (StopReturns(t) /\ thr[t].process = None)
                => /\ UNCHANGED <<runs, processes, proc_lock, os, mon, closes>>
                   /\ files'[thr[t].fid].status = "Stopped"
                   /\ files'[thr[t].fid].pid = None
                   /\ \A g \in FileIds \ {thr[t].fid} : files'[g] = files[g]
                   /\ files[thr[t].fid].status = "Stopped" => files' = files]_vars

\* two stops of the same Stopped Artifact, neither of which found a LiveJob,
\* are about to return
C9_Witness ==
    \E t, u \in Threads :
        /\ t # u /\ thr[t].fid = thr[u].fid
        /\ thr[t].pc = "stop_status" /\ thr[t].op = "stop" /\ thr[t].process = None
        /\ thr[u].pc = "stop_status" /\ thr[u].op = "stop" /\ thr[u].process = None
        /\ files[thr[t].fid].exists /\ files[thr[t].fid].status = "Stopped"

\* C10: a monitor that has ended, normally or on a failure inside it, has
\* removed the LiveJob of its Run and has not left the Artifact Running with
\* the pid of the exited process
C10_MonitorAlwaysCleansUp ==
    \A r \in RunIds :
        mon[r].pc \in {"done", "crashed"}
            => /\ processes[mon[r].file_id].run_id # r
               /\ ~(files[mon[r].file_id].status = "Running"
                       /\ files[mon[r].file_id].pid = mon[r].process)

\* the step in which the spawn of a start fails, and the return that follows it
SpawnFails(t) ==
    \/ thr[t].pc = "spawn" /\ thr'[t].pc = "spawn_failed"
    \/ thr[t].pc = "spawn_failed" /\ thr'[t] # thr[t]

\* C11: a start whose spawn step fails leaves the Artifact's status as it was,
\* creates no Run, spawns no process, registers no LiveJob and starts no
\* monitor, and returns through its error message to the handler
C11_SpawnFailureChangesNothing ==
    [][\A t \in Threads :
          SpawnFails(t)
              => /\ UNCHANGED <<files, runs, processes, os, mon, closes>>
                 /\ thr'[t].pc \in {"spawn_failed", "idle"}
                 /\ thr'[t].process = None /\ thr'[t].run_id = None]_vars

\* the spawn of a start of a Stopped Artifact has failed: no Run, no process,
\* no LiveJob and no monitor of that Artifact exists
C11_Witness ==
    \E t \in Threads :
        /\ thr[t].pc = "spawn_failed"
        /\ files[thr[t].fid].status = "Stopped" /\ files[thr[t].fid].pid = None
        /\ processes[thr[t].fid] = NoJob
        /\ \A r \in 1..Len(runs) : runs[r].file_id # thr[t].fid
        /\ \A p \in 1..Len(os) : os[p].fid # thr[t].fid
        /\ \A r \in RunIds : mon[r].pc = "none"

\* C12: in every reachable state the tenant owns at most MAX_FILES_PER_USER
\* Artifact records, whatever the interleaving of uploads and deletes
C12_QuotaNeverExceeded == Cardinality(list_user_files(files)) <= MAX_FILES_PER_USER

\* C13: when a delete of an Artifact completes (the step that removes its
\* record), the job table holds no LiveJob for id, no process spawned for id is
\* alive and the files table holds no record for id
C13_DeleteLeavesNothing ==
    [][\A t \in Threads :
          (thr[t].pc = "remove" /\ thr'[t] # thr[t])
              => /\ processes'[thr[t].fid] = NoJob
                 /\ \A p \in 1..Len(os') : os'[p].fid = thr[t].fid => ~os'[p].alive
                 /\ ~files'[thr[t].fid].exists]_vars

\* C14: whatever happens to the dependency installation of a start (a package
\* of the manifest failing or timing out, an import that cannot be installed, an
\* error raised by the probe of an import), the start goes on to its spawn step
C14_InstallNeverAborts ==
    [][\A t \in Threads :
          (thr[t].pc = "install" /\ thr'[t] # thr[t]) => thr'[t].pc = "spawn"]_vars

IsPriority(nm) == \E k \in 1..Len(priority_files) : priority_files[k] = nm

IsSource(nm) == nm.ext \in {".py", ".js"}

Holds(tree, d, nm) == d \in 1..Len(tree) /\ \E i \in 1..Len(tree[d]) : tree[d][i] = nm

\* the file of the tree that comes first in walk order among those with a
\* supported extension
FirstSource(tree, d, nm) ==
    /\ Holds(tree, d, nm) /\ IsSource(nm)
    /\ \A e \in 1..(d - 1) : \A i \in 1..Len(tree[e]) : ~IsSource(tree[e][i])
    /\ \A i, j \in 1..Len(tree[d]) : (tree[d][j] = nm /\ i < j) => ~IsSource(tree[d][i])

\* C15: the resolver returns the root's file whose name is earliest in the
\* priority list when the root holds a priority-named file; otherwise a
\* priority-named file of the tree when there is one; otherwise the first file
\* in walk order with the extension .py or .js; and NotFound exactly when the
\* tree holds no file with such an extension
C15_ResolveOrder ==
    (call.op = "resolve" /\ call.done) =>
        LET tree == call.tree
            res == call.result
            atRoot == \E nm \in FileNames : IsPriority(nm) /\ Holds(tree, 1, nm)
            anywhere == \E d \in 1..Len(tree), nm \in FileNames :
                            IsPriority(nm) /\ Holds(tree, d, nm)
            source == \E d \in 1..Len(tree), nm \in FileNames :
                            IsSource(nm) /\ Holds(tree, d, nm)
        IN /\ atRoot =>
                /\ res.dir = 1 /\ Holds(tree, 1, res.name)
                /\ \E k \in 1..Len(priority_files) :
                      /\ priority_files[k] = res.name
                      /\ \A j \in 1..(k - 1) : ~Holds(tree, 1, priority_files[j])
           /\ (~atRoot /\ anywhere) => IsPriority(res.name) /\ Holds(tree, res.dir, res.name)
           /\ (~anywhere /\ source) => FirstSource(tree, res.dir, res.name)
           /\ res = NotFound <=> ~source

\* the resolver has passed over a nested priority file listed first and a root
\* fallback file to return the root's priority file that is earliest in the list
C15_Witness ==
    /\ call.op = "resolve" /\ call.done
    /\ Len(call.tree) = 2
    /\ call.tree[1] = <<Name("app", ".js"), Name("main", ".py")>>
    /\ call.result = [dir |-> 1, name |-> Name("main", ".py")]

\* C17: when an uploaded archive extracts and an entry point is found in it,
\* the kind handed to the artifact's record is the kind of the entry point's
\* name, python for .py and javascript for .js, and never zip or archive
C17_KindOfEntryPoint ==
    (/\ call.op = "document" /\ call.done
     /\ Lower(call.name.ext) \in {".zip", ".tar", ".tar.gz", ".tgz"}
     /\ call.intact
     /\ \E d \in 1..Len(call.tree), nm \in FileNames : IsSource(nm) /\ Holds(call.tree, d, nm))
        => /\ call.result.stored
           /\ Holds(call.tree, call.result.main.dir, call.result.main.name)
           /\ call.result.main.name.ext = ".py" => call.result.kind = "python"
           /\ call.result.main.name.ext = ".js" => call.result.kind = "javascript"
           /\ call.result.kind \in {"python", "javascript"}

\* a zip archive whose only source file is nested has been stored as javascript
C17_Witness ==
    /\ call.op = "document" /\ call.done
    /\ call.name = Name("proj", ".ZIP")
    /\ call.tree = <<<<Name("notes", ".txt")>>, <<Name("lib", ".js")>>>>
    /\ call.result.stored
    /\ call.result.kind = "javascript"

\* C16: a logs request reads the log of the LiveJob of its id when the job
\* table holds one, and otherwise the log of the most recent Run of the id;
\* without a Run it answers that no log was found; and no step of it changes
\* the job table, an artifact's record or the Runs
C16_LogsSourceAndReadOnly ==
    [][\A t \in Threads :
          (thr[t].op = "logs" /\ thr'[t] # thr[t])
              => /\ UNCHANGED <<files, runs, processes, os, mon, closes>>
                 /\ (thr[t].pc = "logs_lock" /\ processes[thr[t].fid] # NoJob)
                        => /\ thr'[t].pc = "logs_reply"
                           /\ thr'[t].run_id = processes[thr[t].fid].run_id
                 /\ (thr[t].pc = "logs_lock" /\ processes[thr[t].fid] = NoJob)
                        => thr'[t].pc = "logs_query" /\ thr'[t].run_id = None
                 /\ thr[t].pc = "logs_query"
                        => /\ thr'[t].pc = "logs_reply"
                           /\ \A r \in RunsOf(thr[t].fid) :
                                 thr'[t].run_id \in RunsOf(thr[t].fid) /\ r <= thr'[t].run_id
                           /\ RunsOf(thr[t].fid) = {} => thr'[t].run_id = None]_vars

\* a logs request found no LiveJob and has read the log of the later of the two
\* Runs of its artifact
C16_Witness ==
    \E t \in Threads :
        /\ thr[t].op = "logs" /\ thr[t].pc = "logs_reply"
        /\ processes[thr[t].fid] = NoJob
        /\ RunsOf(thr[t].fid) = {1, 2}
        /\ thr[t].run_id = 2

\* no request is being handled and no monitor has an exit to clean up after
Quiescent ==
    /\ Quiet
    /\ \A r \in RunIds :
          \/ mon[r].pc \in {"none", "done"}
          \/ mon[r].pc = "wait" /\ os[mon[r].process].alive

\* C18: in every quiescent state an artifact's status is Running exactly when
\* the job table holds a LiveJob for it, a LiveJob's process is alive, and every
\* live process is the process of the LiveJob of its artifact
C18_NoLostUpdate ==
    Quiescent =>
        /\ \A f \in FileIds :
              /\ files[f].status = "Running" <=> processes[f] # NoJob
              /\ processes[f] # NoJob => os[processes[f].process].alive
        /\ \A p \in 1..Len(os) : os[p].alive => processes[os[p].fid].process = p

\* C19: a cleanup step of the monitor of a Run, taken while the job table holds
\* the LiveJob of a later Run of the same artifact, leaves that LiveJob in the
\* job table and leaves the status Running
C19_MonitorRemovesOnlyItsOwnLiveJob ==
    [][\A r \in RunIds :
          (/\ mon[r].pc \in {"wait", "pop"} /\ mon'[r] # mon[r]
           /\ processes[mon[r].file_id] # NoJob
           /\ processes[mon[r].file_id].run_id > r)
              => /\ processes'[mon[r].file_id] = processes[mon[r].file_id]
                 /\ files[mon[r].file_id].status = "Running"
                        => files'[mon[r].file_id].status = "Running"]_vars

\* C20: the admission of a start writes nothing, and in particular nothing to
\* the job table: it grants the start whenever the job table holds fewer
\* LiveJobs than the maximum at that moment, whatever other starts have been
\* granted and have not registered yet
C20_AdmissionReservesNothing ==
    [][\A t \in Threads :
          (thr[t].pc = "admit" /\ thr'[t] # thr[t])
              => /\ UNCHANGED <<files, runs, processes, os, mon>>
                 /\ thr'[t].pc = "lookup" => Cardinality(LiveIds) < max_running_processes
                 /\ Cardinality(LiveIds) >= max_running_processes => thr'[t] = Idle]_vars

\* two starts of distinct artifacts were both granted and have both registered:
\* the job table holds more LiveJobs than the maximum, all of live processes
C20_Witness ==
    /\ Cardinality(LiveIds) > max_running_processes
    /\ \A f \in LiveIds : os[processes[f].process].alive
    /\ \A t \in Threads : thr[t].op = "start" /\ thr[t].pc = "monitor"
    /\ \A t, u \in Threads : thr[t].fid = thr[u].fid => t = u

\* C21: when the start of a restart spawns its process, no other process of the
\* artifact is alive; and when the start of a restart is rejected or fails, the
\* artifact is left Stopped and without a LiveJob
C21_RestartStopsBeforeStart ==
    [][\A t \in Threads :
          thr[t].op = "restart" =>
              /\ (thr[t].pc = "spawn" /\ thr'[t].pc = "register")
                    => {p \in 1..Len(os') : os'[p].fid = thr[t].fid /\ os'[p].alive}
                          = {thr'[t].process}
              /\ (thr[t].pc \in {"admit", "lookup", "install", "spawn_failed"}
                    /\ thr'[t] = Idle /\ files'[thr[t].fid].exists)
                    => /\ files'[thr[t].fid].status = "Stopped"
                       /\ processes'[thr[t].fid] = NoJob]_vars

\* the threads inside a with proc_lock block, and inside a with db_lock block
InProc ==
    {t \in Threads : thr[t].pc \in {"register_in", "logs_lock_in", "stop_pop"}}
        \cup {MonId(r) : r \in {q \in RunIds : mon[q].pc = "pop_in"}}

InDb ==
    {t \in Threads : thr[t].pc \in {"run_start_in", "status_in", "stop_status_in", "remove_in"}}
        \cup {MonId(r) : r \in {q \in RunIds : mon[q].pc \in {"status_in", "finish_in"}}}

\* C22: the job table changes only in a step of the thread that holds
\* proc_lock, the files and runs tables change only in a step of the thread
\* that holds db_lock, and never are two threads inside blocks of the same lock
C22_MutationsUnderTheirLock ==
    [][/\ Cardinality(InProc) <= 1 /\ Cardinality(InProc') <= 1
       /\ Cardinality(InDb) <= 1 /\ Cardinality(InDb') <= 1
       /\ processes' # processes
             => proc_lock # None /\ InProc = {proc_lock} /\ proc_lock' = None
       /\ (files' # files \/ runs' # runs)
             => db_lock # None /\ InDb = {db_lock} /\ db_lock' = None]_vars

\* a monitor is inside proc_lock to remove its entry while a start waits to
\* register and a stop is inside db_lock to write the status
C22_Witness ==
    \E t, u \in Threads, r \in RunIds :
        /\ mon[r].pc = "pop_in" /\ proc_lock = MonId(r)
        /\ thr[t].pc = "register"
        /\ thr[u].pc = "stop_status_in" /\ db_lock = u

\* some thread has code left to execute: a request is being served, or a
\* monitor has an exit to clean up after
Busy ==
    \/ \E t \in Threads : thr[t].pc # "idle"
    \/ \E r \in RunIds :
          \/ mon[r].pc \in {"status_in", "finish", "finish_in", "pop", "pop_in"}
          \/ mon[r].pc = "wait" /\ ~os[mon[r].process].alive

\* C26: no thread is inside proc_lock and db_lock at once, a held lock is held
\* by a thread inside a block of it, and whenever some thread has code left to
\* execute some thread can take a step
C26_NeverBothLocks ==
    /\ InProc \cap InDb = {}
    /\ proc_lock # None => (InProc = {proc_lock} /\ db_lock # proc_lock)
    /\ db_lock # None => InDb = {db_lock}
    /\ Busy => ENABLED (\/ \E t \in Threads : LockedThreadStep(t)
                        \/ \E r \in RunIds : LockedMonitorStep(r))

\* a stop holds proc_lock after it has killed the process, and the monitor of
\* that process, woken by the kill, has passed both db_lock blocks and waits for
\* proc_lock
C26_Witness ==
    \E t \in Threads, r \in RunIds :
        /\ thr[t].pc = "stop_pop" /\ proc_lock = t /\ thr[t].stopped
        /\ thr[t].run_id = r
        /\ mon[r].pc = "pop"
        /\ db_lock = None

\* C23: the admission decision rejects with the process-count reason when the
\* count has reached the maximum; otherwise with the CPU reason when the CPU
\* load has reached its threshold; otherwise with the memory reason when the
\* memory use has reached its threshold; and admits otherwise
C23_AdmissionIsTheReference ==
    (call.op = "admission" /\ call.done) =>
        LET l == call.load
            many == l.process_count >= max_running_processes
            hot == l.cpu >= CPU_THRESHOLD
            full == l.memory >= MEMORY_THRESHOLD
        IN /\ many => call.result = <<TRUE, "Too many running processes">>
           /\ (~many /\ hot) => call.result = <<TRUE, "High CPU load">>
           /\ (~many /\ ~hot /\ full) => call.result = <<TRUE, "High memory usage">>
           /\ (~many /\ ~hot /\ ~full) => call.result = <<FALSE, "">>

\* the count, the CPU load and the memory use are all at their limits, and the
\* decision has rejected with the process-count reason
C23_Witness ==
    /\ call.op = "admission" /\ call.done
    /\ call.load = [cpu |-> CPU_THRESHOLD, memory |-> MEMORY_THRESHOLD,
                    process_count |-> MAX_RUNNING_PROCESSES]
    /\ call.result = <<TRUE, "Too many running processes">>

\* C24: the step in which start finds no record, no entry point or no known
\* extension, and the step in which it then sends the error and returns, change
\* no record, no Run, no LiveJob, no process and no monitor; the start ends
\* without a process and without a Run
C24_EarlyFailureChangesNothing ==
    [][\A t \in Threads :
          (\/ thr[t].pc = "lookup" /\ thr'[t].pc \in LookupErrors
           \/ thr[t].pc \in LookupErrors /\ thr'[t] # thr[t])
              => /\ UNCHANGED <<files, runs, processes, os, mon, closes>>
                 /\ thr'[t].pc \in LookupErrors \cup {"idle"}
                 /\ thr'[t].process = None /\ thr'[t].run_id = None]_vars

\* a second start of a running artifact has found no entry point: the status
\* is still Running and the LiveJob, the Run and the process of the first start
\* are as they were
C24_Witness ==
    \E t \in Threads :
        /\ thr[t].pc = "no_main_file"
        /\ files[thr[t].fid].status = "Running"
        /\ processes[thr[t].fid] # NoJob
        /\ os[processes[thr[t].fid].process].alive
        /\ Len(runs) = Len(os) /\ Len(os) = NumThreads - 1

\* C25: when every request comes from a tenant who owns no artifact, no step
\* of a request spawns or kills a process, writes or removes a record, adds a
\* Run or changes the job table, and no logs request reads the log of a Run
C25_NonOwnerChangesNothing ==
    [][\A t \in Threads :
          thr'[t] # thr[t]
              => /\ UNCHANGED <<files, runs, processes, os>>
                 /\ thr'[t].op = "logs" => thr'[t].run_id = None]_vars

\* C27: while a start has its LiveJob still to register, the monitor of its Run
\* has not been started; and once the monitor of a Run has finished, the job
\* table holds no LiveJob of that Run
C27_RegisteredBeforeMonitored ==
    /\ \A t \in Threads :
          thr[t].pc = "register" => mon[thr[t].run_id].pc = "none"
    /\ \A r \in RunIds :
          mon[r].pc = "done" => \A f \in FileIds : processes[f].run_id # r

\* the process of the only start has exited by itself, the monitor of its Run
\* has finished and the job table is empty
C27_Witness ==
    /\ nreq = NumThreads - 1
    /\ Quiet
    /\ \E r \in RunIds :
          /\ mon[r].pc = "done"
          /\ runs[r].finished /\ runs[r].exit_code \in ExitCodes
    /\ \A f \in FileIds : processes[f] = NoJob

\* C28: when the sampling raises, the load reported is CPU 0, memory 0 and
\* process count 0, and the admission grants the start whatever the number of
\* LiveJobs in the job table
C28_AdmissionFailsOpen ==
    [][\A t \in Threads :
          (thr[t].pc = "admit" /\ thr'[t] # thr[t])
              => /\ \A c \in CpuSamples, m \in MemSamples :
                       get_system_load(c, m, TRUE)
                          = [cpu |-> None, memory |-> None, process_count |-> None]
                 /\ thr'[t].pc = "lookup"]_vars

\* a start has been granted while the job table holds as many LiveJobs as the
\* maximum, all of live processes, and no other request is being served
C28_Witness ==
    \E t \in Threads :
        /\ thr[t].pc = "lookup"
        /\ \A u \in Threads : u # t => thr[u].pc = "idle"
        /\ Cardinality(LiveIds) >= max_running_processes
        /\ \A f \in LiveIds : os[processes[f].process].alive

====
